---- MODULE Spec2Model ----
(***************************************************************************)
(* Model of the Wake-on-LAN sender (src/src/main.rs).                      *)
(*                                                                         *)
(* A Rust String is a sequence of characters; every character is a TLA+    *)
(* string.  ASCII characters are written as themselves; three non-ASCII    *)
(* characters stand for the behaviours of UTF-8 text the code depends on:  *)
(*   "e_acute" / "E_ACUTE"  two bytes each, upper-cased to each other,     *)
(*   "sharp_s"              two bytes, upper-cased to the two chars "SS".  *)
(* A u8 is an integer 0..255.                                              *)
(***************************************************************************)
EXTENDS Integers, Sequences, FiniteSets, TLC

VARIABLES
    cli,            \* what clap hands to main: macs, file, net, verbose
    env,            \* the OS: local interfaces, whether enumeration fails
    pc,             \* position of main
    mac_addresses,  \* main.rs:52  the resolved MAC strings
    origin,         \* for each resolved MAC string, its index in the input
    networks,       \* main.rs:70  the resolved Ipv4Net list
    i,              \* index of the MAC address of the loop at main.rs:90
    j,              \* index of the network of the loop at main.rs:117
    target,         \* main.rs:108 the upper-cased MAC string being sent
    output,         \* every line printed so far
    sent,           \* every datagram handed to send_to that was sent
    exit_code,      \* -1 while running, else the process exit code
    arg,            \* input of the function specifications
    result          \* result of the function specifications

vars == <<cli, env, pc, mac_addresses, origin, networks, i, j, target,
          output, sent, exit_code, arg, result>>

----------------------------------------------------------------------------
(* Program constants *)

WOL_PORT == 9

MAGIC_HEADER == <<255, 255, 255, 255, 255, 255>>

PacketLen == 102

Repetitions == 16

MacStrLen == 17

MacParts == 6

PartLen == 2

PanicCode == 101

----------------------------------------------------------------------------
(* Strings *)

None == "none"

LowerChars == <<"a", "b", "c", "d", "e", "f", "g", "e_acute">>

UpperChars == <<"A", "B", "C", "D", "E", "F", "G", "E_ACUTE">>

DigitChars == <<"0", "1", "2", "3", "4", "5", "6", "7", "8", "9">>

TwoByteChars == {"e_acute", "E_ACUTE", "sharp_s"}

IndexOf(seq, c) ==
    IF \E k \in 1..Len(seq) : seq[k] = c
    THEN CHOOSE k \in 1..Len(seq) : seq[k] = c
    ELSE 0

\* char::len_utf8
Utf8Len(c) == IF c \in TwoByteChars THEN 2 ELSE 1

\* str::len : the length in bytes
RECURSIVE StrLen(_)
StrLen(s) == IF s = <<>> THEN 0 ELSE Utf8Len(Head(s)) + StrLen(Tail(s))

\* char::to_uppercase : a character may become several
CharToUppercase(c) ==
    IF c = "sharp_s" THEN <<"S", "S">>
    ELSE IF IndexOf(LowerChars, c) > 0 THEN <<UpperChars[IndexOf(LowerChars, c)]>>
    ELSE <<c>>

\* str::to_uppercase
RECURSIVE ToUppercase(_)
ToUppercase(s) ==
    IF s = <<>> THEN <<>> ELSE CharToUppercase(Head(s)) \o ToUppercase(Tail(s))

\* str::contains(char)
Contains(s, c) == \E k \in 1..Len(s) : s[k] = c

\* str::split(char) : always at least one part, empty parts are kept
RECURSIVE SplitFrom(_, _, _)
SplitFrom(s, sep, cur) ==
    IF s = <<>> THEN <<cur>>
    ELSE IF Head(s) = sep THEN <<cur>> \o SplitFrom(Tail(s), sep, <<>>)
    ELSE SplitFrom(Tail(s), sep, Append(cur, Head(s)))

Split(s, sep) == SplitFrom(s, sep, <<>>)

\* to_digit with the letters one too high
ToDigit16LettersShifted(c) ==
    IF IndexOf(DigitChars, c) > 0 THEN IndexOf(DigitChars, c) - 1
    ELSE IF IndexOf(UpperChars, c) \in 1..6 THEN 10 + IndexOf(UpperChars, c)
    ELSE IF IndexOf(LowerChars, c) \in 1..6 THEN 10 + IndexOf(LowerChars, c)
    ELSE -1

\* char::to_digit(16) : -1 when the character is no hexadecimal digit
ToDigit16(c) ==
    IF IndexOf(DigitChars, c) > 0 THEN IndexOf(DigitChars, c) - 1
    ELSE IF IndexOf(UpperChars, c) \in 1..6 THEN 9 + IndexOf(UpperChars, c)
    ELSE IF IndexOf(LowerChars, c) \in 1..6 THEN 9 + IndexOf(LowerChars, c)
    ELSE -1

RECURSIVE Accumulate16(_, _)
Accumulate16(digits, acc) ==
    IF digits = <<>> THEN acc
    ELSE IF ToDigit16(Head(digits)) < 0 THEN -1
    ELSE IF acc * 16 + ToDigit16(Head(digits)) > 255 THEN -1
    ELSE Accumulate16(Tail(digits), acc * 16 + ToDigit16(Head(digits)))

\* u8::from_str_radix(src, 16) : the byte, or -1 for Err.  An empty string
\* and a lone sign are errors, one leading '+' is skipped, '-' is no digit
\* of an unsigned type, a value above 255 overflows.
FromStrRadix16(src) ==
    IF src = <<>> THEN -1
    ELSE IF Len(src) = 1 /\ Head(src) \in {"+", "-"} THEN -1
    ELSE IF Head(src) = "+" THEN Accumulate16(Tail(src), 0)
    ELSE Accumulate16(src, 0)

\* str::trim
RECURSIVE TrimStart(_)
TrimStart(s) ==
    IF s # <<>> /\ Head(s) = " " THEN TrimStart(Tail(s)) ELSE s

RECURSIVE TrimEnd(_)
TrimEnd(s) ==
    IF s # <<>> /\ s[Len(s)] = " " THEN TrimEnd(SubSeq(s, 1, Len(s) - 1)) ELSE s

Trim(s) == TrimEnd(TrimStart(s))

\* str::starts_with
StartsWith(s, prefix) ==
    Len(s) >= Len(prefix) /\ SubSeq(s, 1, Len(prefix)) = prefix

----------------------------------------------------------------------------
(* Addresses *)
(* An Ipv4Addr is its four octets; a u32 is its 32 bits, highest first.    *)

\* u8::count_ones
RECURSIVE CountOnes(_)
CountOnes(x) == IF x = 0 THEN 0 ELSE (x % 2) + CountOnes(x \div 2)

\* the 8 bits of a byte, highest first
ByteBits(x) == [k \in 1..8 |-> (x \div (2 ^ (8 - k))) % 2]

\* the byte of 8 bits
RECURSIVE BitsByte(_)
BitsByte(bits) ==
    IF bits = <<>> THEN 0 ELSE 2 * BitsByte(SubSeq(bits, 1, Len(bits) - 1)) + bits[Len(bits)]

\* u32::from(Ipv4Addr)
U32FromAddr(addr) ==
    ByteBits(addr[1]) \o ByteBits(addr[2]) \o ByteBits(addr[3]) \o ByteBits(addr[4])

\* Ipv4Addr::from(u32)
AddrFromU32(bits) ==
    <<BitsByte(SubSeq(bits, 1, 8)), BitsByte(SubSeq(bits, 9, 16)),
      BitsByte(SubSeq(bits, 17, 24)), BitsByte(SubSeq(bits, 25, 32))>>

U32Max == [k \in 1..32 |-> 1]

U32Zero == [k \in 1..32 |-> 0]

\* the | of two u32
BitOr(a, b) == [k \in 1..32 |-> IF a[k] = 1 \/ b[k] = 1 THEN 1 ELSE 0]

\* the >> of a u32 by n < 32
Shr(bits, n) == [k \in 1..32 |-> IF k <= n THEN 0 ELSE bits[k - n]]

\* hostmask with a plain >>, whose shift count wraps at 32
HostmaskUnchecked(prefix_len) == Shr(U32Max, prefix_len % 32)

\* Ipv4Net::hostmask : u32::MAX.checked_shr(prefix_len).unwrap_or(0)
Hostmask(prefix_len) ==
    IF prefix_len >= 32 THEN U32Zero ELSE Shr(U32Max, prefix_len)

\* Ipv4Net::broadcast : addr | hostmask
Broadcast(ip_net) ==
    AddrFromU32(BitOr(U32FromAddr(ip_net.addr), Hostmask(ip_net.prefix_len)))

\* Ipv4Addr::new(a, b, c, d)
Ipv4(a, b, c, d) == <<a, b, c, d>>

\* Ipv4Addr::octets
Octets(addr) == addr

----------------------------------------------------------------------------
(* send_magic_packet *)

ErrPartCount == "Invalid MAC address format, should be 6 parts"

ErrPartLength == "Invalid MAC address format, should be 2 characters per part"

ErrNotHex == "Invalid MAC address format, should be hex"

\* the text of the io::Error of set_broadcast or send_to, which the OS
\* chooses and which does not name the call
ErrIo == "io error"

\* main.rs:139-145 : split by ':', and by '-' when that gives no 6 parts;
\* <<>> stands for the early return
MacPartsOf(target_mac) ==
    LET by_colon == Split(target_mac, ":")
        by_dash == Split(target_mac, "-")
    IN  IF Len(by_colon) = MacParts THEN by_colon
        ELSE IF Len(by_dash) = MacParts THEN by_dash
        ELSE <<>>

\* the loop over the parts with the lengths of all parts checked first
RECURSIVE ParsePartsLengthsFirst(_, _, _)
ParsePartsLengthsFirst(mac_parts, k, mac_bytes) ==
    IF k > Len(mac_parts) THEN [ok |-> TRUE, bytes |-> mac_bytes, err |-> None]
    ELSE IF \E m \in k..Len(mac_parts) : StrLen(mac_parts[m]) # PartLen
        THEN [ok |-> FALSE, bytes |-> <<>>, err |-> ErrPartLength]
    ELSE LET v == FromStrRadix16(mac_parts[k])
         IN  IF v < 0
             THEN [ok |-> FALSE, bytes |-> <<>>, err |-> ErrNotHex]
             ELSE ParsePartsLengthsFirst(mac_parts, k + 1, [mac_bytes EXCEPT ![k] = v])

\* main.rs:148-157 : the loop over the parts from part k on; each part is
\* checked for its length and then parsed before the next part is looked at
RECURSIVE ParseParts(_, _, _)
ParseParts(mac_parts, k, mac_bytes) ==
    IF k > Len(mac_parts) THEN [ok |-> TRUE, bytes |-> mac_bytes, err |-> None]
    ELSE IF StrLen(mac_parts[k]) # PartLen
        THEN [ok |-> FALSE, bytes |-> <<>>, err |-> ErrPartLength]
    ELSE LET v == FromStrRadix16(mac_parts[k])
         IN  IF v < 0
             THEN [ok |-> FALSE, bytes |-> <<>>, err |-> ErrNotHex]
             ELSE ParseParts(mac_parts, k + 1, [mac_bytes EXCEPT ![k] = v])

\* main.rs:139-157
ParseMac(target_mac) ==
    LET mac_parts == MacPartsOf(target_mac)
    IN  IF mac_parts = <<>>
        THEN [ok |-> FALSE, bytes |-> <<>>, err |-> ErrPartCount]
        ELSE ParseParts(mac_parts, 1, [k \in 1..MacParts |-> 0])

\* slice.copy_from_slice : dst[start .. start + len(src)) = src, 0-based start
CopyFromSlice(dst, start, src) ==
    [k \in 1..Len(dst) |->
        IF k > start /\ k <= start + Len(src) THEN src[k - start] ELSE dst[k]]

\* main.rs:163-165
RECURSIVE FillRepetitions(_, _, _)
FillRepetitions(magic_packet, mac_bytes, rep) ==
    IF rep >= Repetitions THEN magic_packet
    ELSE FillRepetitions(CopyFromSlice(magic_packet, 6 + rep * 6, mac_bytes),
                         mac_bytes, rep + 1)

\* the packet with the repetitions counted from 1
MagicPacketFromOne(mac_bytes) ==
    FillRepetitions(CopyFromSlice([k \in 1..PacketLen |-> 0], 0, MAGIC_HEADER),
                    mac_bytes, 1)

\* main.rs:159-165
MagicPacket(mac_bytes) ==
    FillRepetitions(CopyFromSlice([k \in 1..PacketLen |-> 0], 0, MAGIC_HEADER),
                    mac_bytes, 0)

\* main.rs:167-169
Dest(ip_net) == [ip |-> Broadcast(ip_net), port |-> WOL_PORT]

NoDatagram == [payload |-> <<>>, ip |-> <<>>, port |-> 0]

Faults == {"none", "set_broadcast", "send_to"}

\* main.rs:134-175 : fault is what the socket does in this call
SendMagicPacket(target_mac, ip_net, fault) ==
    LET parsed == ParseMac(target_mac)
        dest == Dest(ip_net)
    IN  IF ~parsed.ok
        THEN [ok |-> FALSE, err |-> parsed.err, dgram |-> NoDatagram]
        ELSE IF fault = "set_broadcast"
        THEN [ok |-> FALSE, err |-> ErrIo, dgram |-> NoDatagram]
        ELSE IF fault = "send_to"
        THEN [ok |-> FALSE, err |-> ErrIo, dgram |-> NoDatagram]
        ELSE [ok |-> TRUE, err |-> None,
              dgram |-> [payload |-> MagicPacket(parsed.bytes),
                         ip |-> dest.ip, port |-> dest.port]]

----------------------------------------------------------------------------
(* main: the checks of main.rs:92-105 *)

\* main.rs:92
LengthOk(mac_address) == StrLen(mac_address) = MacStrLen

\* main.rs:99
SeparatorOk(mac_address) == Contains(mac_address, ":") \/ Contains(mac_address, "-")

----------------------------------------------------------------------------
(* read_mac_addresses_from_file *)

IoError == <<"io_error">>

\* the line filter without the length check
LineKeptAnyLength(line) ==
    /\ line # <<>>
    /\ ~StartsWith(line, <<"#">>)
    /\ ~StartsWith(line, <<"/", "/">>)
    /\ (Contains(line, ":") \/ Contains(line, "-"))

\* main.rs:207-226 : whether the trimmed line is pushed
LineKept(line) ==
    /\ line # <<>>
    /\ ~StartsWith(line, <<"#">>)
    /\ ~StartsWith(line, <<"/", "/">>)
    /\ StrLen(line) = MacStrLen
    /\ (Contains(line, ":") \/ Contains(line, "-"))

\* main.rs:202-228 : the numbers of the lines pushed, from line k on; a
\* line that cannot be read ends the loop
RECURSIVE KeptLines(_, _)
KeptLines(lines, k) ==
    IF k > Len(lines) THEN <<>>
    ELSE IF lines[k] = IoError THEN <<>>
    ELSE IF LineKept(Trim(lines[k])) THEN <<k>> \o KeptLines(lines, k + 1)
    ELSE KeptLines(lines, k + 1)

\* main.rs:197-231
ReadMacAddressesFromFile(lines) ==
    LET kept == KeptLines(lines, 1)
    IN  [k \in 1..Len(kept) |-> Trim(lines[kept[k]])]

----------------------------------------------------------------------------
(* networks *)

\* str::parse::<Ipv4Net> of "o1.o2.o3.o4/prefix"; a text without '/' has
\* prefix -1
ParseIpv4NetOk(net) ==
    /\ Len(net.octets) = 4
    /\ \A k \in 1..Len(net.octets) : net.octets[k] \in 0..255
    /\ net.prefix \in 0..32

ParseIpv4Net(net) ==
    [addr |-> Ipv4(net.octets[1], net.octets[2], net.octets[3], net.octets[4]),
     prefix_len |-> net.prefix]

\* main.rs:185-188
RECURSIVE PrefixLenFrom(_, _)
PrefixLenFrom(octets, acc) ==
    IF octets = <<>> THEN acc
    ELSE PrefixLenFrom(Tail(octets), (acc + CountOnes(Head(octets))) % 256)

PrefixLen(netmask) == PrefixLenFrom(Octets(netmask), 0)

\* main.rs:177-195 : after get_if_addrs succeeded
RECURSIVE GetLocalIpNets(_)
GetLocalIpNets(if_addrs) ==
    IF if_addrs = <<>> THEN <<>>
    ELSE IF Head(if_addrs).v4
    THEN <<[addr |-> Head(if_addrs).ip,
            prefix_len |-> PrefixLen(Head(if_addrs).netmask)]>>
         \o GetLocalIpNets(Tail(if_addrs))
    ELSE GetLocalIpNets(Tail(if_addrs))

----------------------------------------------------------------------------
(* Inputs of a run *)

MaxMacs == 2

MaxNets == 2

RECURSIVE Join(_, _)
Join(parts, sep) ==
    IF Len(parts) = 0 THEN <<>>
    ELSE IF Len(parts) = 1 THEN Head(parts)
    ELSE Head(parts) \o <<sep>> \o Join(Tail(parts), sep)

SeqsUpTo(S, lo, hi) == UNION {[1..n -> S] : n \in lo..hi}

TailParts == <<<<"c", "c">>, <<"d", "d">>, <<"e", "e">>, <<"0", "f">>>>

\* "aa:bb:cc:dd:ee:0f"
MacLower == Join(<<<<"a", "a">>, <<"b", "b">>>> \o TailParts, ":")

\* "aa:bb"
MacShort == Join(<<<<"a", "a">>, <<"b", "b">>>>, ":")

\* "aabbccddee0f00112" : 17 characters, no separator
MacNoSep == <<"a", "a", "b", "b", "c", "c", "d", "d", "e", "e", "0", "f",
              "0", "0", "1", "1", "2">>

\* "gg:bb:cc:dd:ee:0f"
MacNotHex == Join(<<<<"g", "g">>, <<"b", "b">>>> \o TailParts, ":")

\* " aa:bb:cc:dd:ee:0f "
LinePadded == <<" ">> \o MacLower \o <<" ">>

\* "#a:bb:cc:dd:ee:0f"
LineHash == <<"#">> \o Join(<<<<"a">>, <<"b", "b">>>> \o TailParts, ":")

\* "//:bb:cc:dd:ee:0f"
LineSlashes == <<"/", "/">> \o Join(<<<<>>, <<"b", "b">>>> \o TailParts, ":")

LineBlank == <<" ">>

ArgStrings == {MacLower, MacShort, MacNoSep, MacNotHex}

\* every file starts with two comment lines and a blank line
FileHeader == <<LineHash, LineSlashes, LineBlank>>

FileLines == {LinePadded, MacShort, MacNoSep, MacNotHex, IoError}

\* "192.168.1.0/24"
Net24 == [octets |-> <<192, 168, 1, 0>>, prefix |-> 24]

\* "10.1.2.3/8"
Net8 == [octets |-> <<10, 1, 2, 3>>, prefix |-> 8]

\* "not-a-cidr"
NetBad == [octets |-> <<>>, prefix |-> -1]

NetStrings == {Net24, Net8, NetBad}

If24 == [v4 |-> TRUE, ip |-> Ipv4(192, 168, 1, 10), netmask |-> Ipv4(255, 255, 255, 0)]

If16 == [v4 |-> TRUE, ip |-> Ipv4(10, 1, 2, 3), netmask |-> Ipv4(255, 255, 0, 0)]

IfV6 == [v4 |-> FALSE, ip |-> <<>>, netmask |-> <<>>]

NoFile == [given |-> FALSE, exists |-> FALSE, readable |-> FALSE, lines |-> <<>>]

Files(max_lines) ==
    {[given |-> TRUE, exists |-> FALSE, readable |-> FALSE, lines |-> <<>>],
     [given |-> TRUE, exists |-> TRUE, readable |-> FALSE, lines |-> <<>>]}
    \cup {[given |-> TRUE, exists |-> TRUE, readable |-> TRUE,
            lines |-> FileHeader \o l] :
            l \in SeqsUpTo(FileLines, 0, max_lines)}

NoNet == [given |-> FALSE, values |-> <<>>]

NetOptions(max_nets) ==
    {NoNet} \cup
    {[given |-> TRUE, values |-> v] : v \in SeqsUpTo(NetStrings, 0, max_nets)}

\* main.rs:13-48 : what get_matches returns
CliInputs(max_macs, max_nets) ==
    {[macs |-> m, file |-> NoFile, net |-> n, verbose |-> v] :
        m \in SeqsUpTo(ArgStrings, 1, max_macs), n \in NetOptions(max_nets),
        v \in BOOLEAN}
    \cup
    {[macs |-> <<>>, file |-> f, net |-> n, verbose |-> v] :
        f \in Files(max_macs), n \in NetOptions(max_nets), v \in BOOLEAN}

EnvInputs ==
    {[if_fail |-> TRUE, ifaces |-> <<>>]}
    \cup {[if_fail |-> FALSE, ifaces |-> a] :
            a \in {<<>>, <<If24>>, <<IfV6, If16>>, <<If24, IfV6, If16>>}}

\* the interfaces are read only when no network is given
NoEnv == [if_fail |-> FALSE, ifaces |-> <<>>]

----------------------------------------------------------------------------
(* main *)

Running == -1

Init ==
    /\ cli \in CliInputs(MaxMacs, MaxNets)
    /\ env \in IF cli.net.given THEN {NoEnv} ELSE EnvInputs
    /\ pc = "start"
    /\ mac_addresses = <<>>
    /\ origin = <<>>
    /\ networks = <<>>
    /\ i = 1
    /\ j = 1
    /\ target = <<>>
    /\ output = <<>>
    /\ sent = <<>>
    /\ exit_code = Running
    /\ arg = None
    /\ result = None

Line(kind, text, err, org, net) ==
    [kind |-> kind, text |-> text, err |-> err, origin |-> org, net |-> net]

\* std::process::exit(1) after a message
Exit(line) ==
    /\ output' = Append(output, line)
    /\ pc' = "exited"
    /\ exit_code' = 1

\* a failed unwrap
Panic ==
    /\ pc' = "panicked"
    /\ exit_code' = PanicCode

\* main.rs:52-68
ReadMacSource ==
    /\ pc = "start"
    /\ IF cli.file.given /\ ~cli.file.exists
       THEN /\ Exit(Line("file_error", <<>>, None, 0, 0))
            /\ UNCHANGED <<mac_addresses, origin>>
       ELSE IF cli.file.given /\ ~cli.file.readable
       THEN /\ Panic
            /\ UNCHANGED <<mac_addresses, origin, output>>
       ELSE /\ mac_addresses' = IF cli.file.given
                                THEN ReadMacAddressesFromFile(cli.file.lines)
                                ELSE cli.macs
            /\ origin' = IF cli.file.given
                         THEN KeptLines(cli.file.lines, 1)
                         ELSE [k \in 1..Len(cli.macs) |-> k]
            /\ pc' = "nets"
            /\ UNCHANGED <<output, exit_code>>
    /\ UNCHANGED <<cli, env, networks, i, j, target, sent, arg, result>>

FirstBadNet(values) ==
    CHOOSE k \in 1..Len(values) :
        /\ ~ParseIpv4NetOk(values[k])
        /\ \A m \in 1..(k - 1) : ParseIpv4NetOk(values[m])

GoodNets(values) == SelectSeq(values, ParseIpv4NetOk)

\* the networks resolved with the unparseable strings left out
ResolveNetworksSkipBad ==
    /\ pc = "nets"
    /\ IF cli.net.given
       THEN /\ networks' = [k \in 1..Len(GoodNets(cli.net.values)) |->
                               ParseIpv4Net(GoodNets(cli.net.values)[k])]
            /\ pc' = "loop"
            /\ UNCHANGED <<output, exit_code>>
       ELSE IF env.if_fail
            THEN /\ Panic
                 /\ UNCHANGED <<networks, output>>
            ELSE /\ networks' = GetLocalIpNets(env.ifaces)
                 /\ pc' = "loop"
                 /\ UNCHANGED <<output, exit_code>>
    /\ UNCHANGED <<cli, env, mac_addresses, origin, i, j, target, sent, arg, result>>

\* main.rs:70-88
ResolveNetworks ==
    /\ pc = "nets"
    /\ IF cli.net.given
       THEN IF \E k \in 1..Len(cli.net.values) : ~ParseIpv4NetOk(cli.net.values[k])
            THEN /\ Exit(Line("net_error", <<>>, None, 0, FirstBadNet(cli.net.values)))
                 /\ UNCHANGED networks
            ELSE /\ networks' = [k \in 1..Len(cli.net.values) |->
                                    ParseIpv4Net(cli.net.values[k])]
                 /\ pc' = "loop"
                 /\ UNCHANGED <<output, exit_code>>
       ELSE IF env.if_fail
            THEN /\ Panic
                 /\ UNCHANGED <<networks, output>>
            ELSE /\ networks' = GetLocalIpNets(env.ifaces)
                 /\ pc' = "loop"
                 /\ UNCHANGED <<output, exit_code>>
    /\ UNCHANGED <<cli, env, mac_addresses, origin, i, j, target, sent, arg, result>>

\* main.rs:90-110 : one MAC address up to the call of send_wol_packet
CheckMacAddress ==
    /\ pc = "loop"
    /\ i <= Len(mac_addresses)
    /\ IF ~LengthOk(mac_addresses[i])
       THEN /\ output' = Append(output,
                    Line("length_error", mac_addresses[i], None, origin[i], 0))
            /\ i' = i + 1
            /\ UNCHANGED <<pc, target>>
       ELSE IF ~SeparatorOk(mac_addresses[i])
       THEN /\ output' = Append(output,
                    Line("separator_error", mac_addresses[i], None, origin[i], 0))
            /\ i' = i + 1
            /\ UNCHANGED <<pc, target>>
       ELSE /\ target' = ToUppercase(mac_addresses[i])
            /\ pc' = "bind"
            /\ UNCHANGED <<output, i>>
    /\ UNCHANGED <<cli, env, mac_addresses, origin, networks, j, sent, exit_code,
                   arg, result>>

\* main.rs:115-116 : the socket is bound
Bind ==
    /\ pc = "bind"
    /\ pc' = "send"
    /\ j' = 1
    /\ UNCHANGED <<cli, env, mac_addresses, origin, networks, i, target, output,
                   sent, exit_code, arg, result>>

\* main.rs:115-116 : bind fails and unwrap panics
BindFails ==
    /\ pc = "bind"
    /\ Panic
    /\ UNCHANGED <<cli, env, mac_addresses, origin, networks, i, j, target, output,
                   sent, arg, result>>

Datagram(dgram, org, net) ==
    [payload |-> dgram.payload, ip |-> dgram.ip, port |-> dgram.port,
     origin |-> org, net |-> net]

\* one network of the loop, going on to the next network after an error
SendToNetworkNoBreak(fault) ==
    /\ pc = "send"
    /\ j <= Len(networks)
    /\ LET r == SendMagicPacket(target, networks[j], fault)
       IN  IF r.ok
           THEN /\ sent' = Append(sent, Datagram(r.dgram, origin[i], j))
                /\ output' = IF cli.verbose
                             THEN Append(output,
                                         Line("verbose", target, None, origin[i], j))
                             ELSE output
           ELSE /\ output' = Append(output,
                                    Line("send_error", target, r.err, origin[i], j))
                /\ UNCHANGED sent
    /\ j' = j + 1
    /\ UNCHANGED <<cli, env, mac_addresses, origin, networks, target, exit_code,
                   arg, result, pc, i>>

\* main.rs:117-131 : one network of the loop of send_wol_packet
SendToNetwork(fault) ==
    /\ pc = "send"
    /\ j <= Len(networks)
    /\ LET r == SendMagicPacket(target, networks[j], fault)
       IN  IF r.ok
           THEN /\ sent' = Append(sent, Datagram(r.dgram, origin[i], j))
                /\ output' = IF cli.verbose
                             THEN Append(output,
                                         Line("verbose", target, None, origin[i], j))
                             ELSE output
                /\ j' = j + 1
                /\ UNCHANGED <<pc, i>>
           ELSE /\ output' = Append(output,
                                    Line("send_error", target, r.err, origin[i], j))
                /\ pc' = "loop"
                /\ i' = i + 1
                /\ UNCHANGED <<sent, j>>
    /\ UNCHANGED <<cli, env, mac_addresses, origin, networks, target, exit_code,
                   arg, result>>

Send == \E fault \in Faults : SendToNetwork(fault)

\* main.rs:117,132 : the loop over the networks ends
EndSend ==
    /\ pc = "send"
    /\ j > Len(networks)
    /\ pc' = "loop"
    /\ i' = i + 1
    /\ UNCHANGED <<cli, env, mac_addresses, origin, networks, j, target, output,
                   sent, exit_code, arg, result>>

\* main.rs:111-112 : the loop over the MAC addresses ends
Finish ==
    /\ pc = "loop"
    /\ i > Len(mac_addresses)
    /\ pc' = "done"
    /\ exit_code' = 0
    /\ UNCHANGED <<cli, env, mac_addresses, origin, networks, i, j, target, output,
                   sent, arg, result>>

Next ==
    \/ ReadMacSource
    \/ ResolveNetworks
    \/ CheckMacAddress
    \/ Bind
    \/ BindFails
    \/ Send
    \/ EndSend
    \/ Finish

Spec == Init /\ [][Next]_vars

----------------------------------------------------------------------------
(* One MAC string through main and send_wol_packet *)

ErrLength == "invalid MAC address length (should be 17)"

ErrSeparator == "invalid MAC address format (should be separated by : or -)"

\* main.rs:92-110, 117-124 : what one MAC string gives with one network and
\* a working socket: the failure reported (None when the packet is sent),
\* the string shown in the message, and the datagram
ProcessMac(mac_address, ip_net) ==
    IF ~LengthOk(mac_address)
    THEN [report |-> ErrLength, shown |-> mac_address, dgram |-> NoDatagram]
    ELSE IF ~SeparatorOk(mac_address)
    THEN [report |-> ErrSeparator, shown |-> mac_address, dgram |-> NoDatagram]
    ELSE LET r == SendMagicPacket(ToUppercase(mac_address), ip_net, "none")
         IN  [report |-> r.err, shown |-> ToUppercase(mac_address), dgram |-> r.dgram]

\* the MAC strings tried: PartCount parts, the first FreeParts of them any
\* of PartTexts and the others "5e", joined in one of SeparatorStyles
FreeParts == 3

MaxPartCount == 7

PartTexts ==
    {<<"1", "f">>, <<"A", "B">>, <<"+", "1">>, <<"-", "1">>, <<"g", "0">>,
     <<"1">>, <<"2", "2", "2">>, <<"sharp_s">>, <<"e_acute">>}

FixedPart == <<"5", "e">>

SeparatorStyles == {"colon", "dash", "dash_then_colon", "colon_then_dash", "none"}

SeparatorAt(style, k) ==
    IF style = "colon" THEN <<":">>
    ELSE IF style = "dash" THEN <<"-">>
    ELSE IF style = "dash_then_colon" THEN (IF k = 1 THEN <<"-">> ELSE <<":">>)
    ELSE IF style = "colon_then_dash" THEN (IF k = 1 THEN <<":">> ELSE <<"-">>)
    ELSE <<>>

RECURSIVE JoinStyled(_, _, _)
JoinStyled(parts, style, k) ==
    IF k > Len(parts) THEN <<>>
    ELSE IF k = Len(parts) THEN parts[k]
    ELSE parts[k] \o SeparatorAt(style, k) \o JoinStyled(parts, style, k + 1)

MacText(free, count, style) ==
    JoinStyled([k \in 1..count |-> IF k <= Len(free) THEN free[k] ELSE FixedPart],
               style, 1)

MacTexts(free_parts, max_count) ==
    {MacText(free, count, style) :
        free \in [1..free_parts -> PartTexts],
        count \in (MacParts - 1)..max_count,
        style \in SeparatorStyles}

\* "192.168.1.0/24"
IpNet24 == ParseIpv4Net(Net24)

Idle ==
    /\ cli = [macs |-> <<>>, file |-> NoFile, net |-> NoNet, verbose |-> FALSE]
    /\ env = NoEnv
    /\ mac_addresses = <<>>
    /\ origin = <<>>
    /\ networks = <<>>
    /\ i = 1
    /\ j = 1
    /\ target = <<>>
    /\ output = <<>>
    /\ sent = <<>>
    /\ exit_code = Running

IdleVars == <<cli, env, mac_addresses, origin, networks, i, j, target, output,
              sent, exit_code>>

InitMac ==
    /\ Idle
    /\ pc = "function"
    /\ arg \in MacTexts(FreeParts, MaxPartCount)
    /\ result = None

ApplyProcessMac ==
    /\ pc = "function"
    /\ pc' = "applied"
    /\ result' = ProcessMac(arg, IpNet24)
    /\ UNCHANGED <<arg, IdleVars>>

NextMac == ApplyProcessMac

SpecMac == InitMac /\ [][NextMac]_vars

----------------------------------------------------------------------------
(* Six bytes written as text, then through main and send_magic_packet *)

MaxByteSample == 3

ByteSamples == {(k * 171) % 256 : k \in 0..MaxByteSample} \cup {255}

HexDigitsUpper == DigitChars \o SubSeq(UpperChars, 1, 6)

HexDigitsLower == DigitChars \o SubSeq(LowerChars, 1, 6)

\* format!("{:02X}") and format!("{:02x}")
HexPair(byte, digits) == <<digits[(byte \div 16) + 1], digits[(byte % 16) + 1]>>

FormatMac(bytes, sep, digits) ==
    Join([k \in 1..Len(bytes) |-> HexPair(bytes[k], digits)], sep)

\* main.rs:92-108, 139-157 : the checks of main, then the bytes parsed
ParseChecked(mac_address) ==
    [length_ok |-> LengthOk(mac_address),
     separator_ok |-> SeparatorOk(mac_address),
     parsed |-> ParseMac(ToUppercase(mac_address))]

InitFormat ==
    /\ Idle
    /\ pc = "function"
    /\ arg \in [1..MacParts -> ByteSamples]
    /\ result = None

ApplyFormatParse ==
    /\ pc = "function"
    /\ pc' = "applied"
    /\ result' = [upper_colon |-> ParseChecked(FormatMac(arg, ":", HexDigitsUpper)),
                  upper_dash |-> ParseChecked(FormatMac(arg, "-", HexDigitsUpper)),
                  lower_colon |-> ParseChecked(FormatMac(arg, ":", HexDigitsLower))]
    /\ UNCHANGED <<arg, IdleVars>>

NextFormat == ApplyFormatParse

SpecFormat == InitFormat /\ [][NextFormat]_vars

----------------------------------------------------------------------------
(* One network through send_magic_packet *)

AddrSamples ==
    {Ipv4(192, 168, 1, 0), Ipv4(10, 1, 2, 3), Ipv4(0, 0, 0, 0),
     Ipv4(255, 255, 255, 255), Ipv4(172, 16, 85, 170)}

\* "AA:BB:CC:DD:EE:0F"
MacUpper == ToUppercase(MacLower)

InitNet ==
    /\ Idle
    /\ pc = "function"
    /\ arg \in [addr : AddrSamples, prefix_len : 0..32]
    /\ result = None

ApplySendMagicPacket ==
    /\ pc = "function"
    /\ pc' = "applied"
    /\ \E fault \in Faults : result' = SendMagicPacket(MacUpper, arg, fault)
    /\ UNCHANGED <<arg, IdleVars>>

NextNet == ApplySendMagicPacket

SpecNet == InitNet /\ [][NextNet]_vars

----------------------------------------------------------------------------
(* Claims about one MAC string (SpecMac) *)

Applied == pc = "applied"

PacketSent == Applied /\ result.report = None

\* C1: for every MAC string that send_magic_packet parses, the payload sent
\* has exactly 102 bytes, bytes 0..5 are 0xFF, and for every k in 0..15 the
\* 6 bytes from offset 6+6k on are the 6 parsed MAC bytes in order.
C1_PacketLayout ==
    PacketSent =>
        LET mac_bytes == ParseMac(ToUppercase(arg)).bytes
            payload == result.dgram.payload
        IN  /\ Len(mac_bytes) = 6
            /\ Len(payload) = 102
            /\ \A k \in 0..5 : payload[k + 1] = 255
            /\ \A k \in 0..15 : \A m \in 0..5 :
                    payload[6 + 6 * k + m + 1] = mac_bytes[m + 1]

\* "1f:AB:1f:5e:5e:5e" was sent: the payload repeats 1F AB 1F 5E 5E 5E
C1_Witness ==
    /\ PacketSent
    /\ SubSeq(result.dgram.payload, 1, 12)
            = <<255, 255, 255, 255, 255, 255, 31, 171, 31, 94, 94, 94>>
    /\ SubSeq(result.dgram.payload, 97, 102) = <<31, 171, 31, 94, 94, 94>>

\* the parts the part checks see
CheckedParts(mac_address) ==
    IF Len(Split(ToUppercase(mac_address), ":")) = 6
    THEN Split(ToUppercase(mac_address), ":")
    ELSE Split(ToUppercase(mac_address), "-")

WrongLength(part) == StrLen(part) # 2

NotHex(part) == FromStrRadix16(part) < 0

\* the first failing check in the order length, separator, part count,
\* part length of every part, hexadecimal of every part
FixedOrderFailure(mac_address) ==
    IF StrLen(mac_address) # 17 THEN ErrLength
    ELSE IF ~Contains(mac_address, ":") /\ ~Contains(mac_address, "-") THEN ErrSeparator
    ELSE IF Len(CheckedParts(mac_address)) # 6 THEN ErrPartCount
    ELSE IF \E k \in 1..6 : WrongLength(CheckedParts(mac_address)[k]) THEN ErrPartLength
    ELSE IF \E k \in 1..6 : NotHex(CheckedParts(mac_address)[k]) THEN ErrNotHex
    ELSE None

\* the same, but the two part checks are made part by part, left to right
PartByPartFailure(mac_address) ==
    IF StrLen(mac_address) # 17 THEN ErrLength
    ELSE IF ~Contains(mac_address, ":") /\ ~Contains(mac_address, "-") THEN ErrSeparator
    ELSE IF Len(CheckedParts(mac_address)) # 6 THEN ErrPartCount
    ELSE LET parts == CheckedParts(mac_address)
             bad == {k \in 1..6 : WrongLength(parts[k]) \/ NotHex(parts[k])}
         IN  IF bad = {} THEN None
             ELSE LET first == CHOOSE k \in bad : \A m \in bad : k <= m
                  IN  IF WrongLength(parts[first]) THEN ErrPartLength ELSE ErrNotHex

\* C9 as stated: the failure reported for a MAC string is the first failing
\* check in the fixed order length, separator, part count, part length,
\* hexadecimal.
C9_FixedOrder == Applied => result.report = FixedOrderFailure(arg)

\* C9 as amended: the failure reported is the first failing check in the
\* order length, separator, part count, and then the first failing part
\* from the left, its length checked before its digits.
C9_PartByPartOrder == Applied => result.report = PartByPartFailure(arg)

\* a 17-character string of 6 parts whose first part is not hexadecimal and
\* whose second part has a wrong length is reported as not hexadecimal
C9_Witness ==
    /\ Applied
    /\ StrLen(arg) = 17
    /\ Len(CheckedParts(arg)) = 6
    /\ NotHex(CheckedParts(arg)[1]) /\ ~WrongLength(CheckedParts(arg)[1])
    /\ WrongLength(CheckedParts(arg)[2])
    /\ result.report = ErrNotHex

HexDigitChars ==
    {"0", "1", "2", "3", "4", "5", "6", "7", "8", "9",
     "A", "B", "C", "D", "E", "F", "a", "b", "c", "d", "e", "f"}

SeparatorPlaces == {3, 6, 9, 12, 15}

\* six parts of two hexadecimal digits joined by five ':' or by five '-'
Canonical(mac_address) ==
    /\ Len(mac_address) = 17
    /\ \/ \A k \in SeparatorPlaces : mac_address[k] = ":"
       \/ \A k \in SeparatorPlaces : mac_address[k] = "-"
    /\ \A k \in (1..17) \ SeparatorPlaces : mac_address[k] \in HexDigitChars

\* C10: a datagram is sent for a MAC string only if the string is six parts
\* of exactly two hexadecimal digits joined by five ':' or by five '-'.
C10_OnlyCanonicalSent == PacketSent => Canonical(arg)

----------------------------------------------------------------------------
(* Claims about formatted bytes (SpecFormat) *)

RoundTrips(checked) ==
    /\ checked.length_ok
    /\ checked.separator_ok
    /\ checked.parsed.ok
    /\ checked.parsed.bytes = arg

\* C8: six bytes written as 2-digit uppercase hexadecimal octets joined by
\* ':' pass the length and separator checks and are parsed back to the same
\* six bytes; so are they when joined by '-' and when written in lowercase.
C8_RoundTrip ==
    Applied =>
        /\ RoundTrips(result.upper_colon)
        /\ RoundTrips(result.upper_dash)
        /\ RoundTrips(result.lower_colon)

\* 00 AB 56 01 FF AB went through the three forms
C8_Witness ==
    /\ Applied
    /\ arg = <<0, 171, 86, 1, 255, 171>>
    /\ result.lower_colon.parsed.bytes = <<0, 171, 86, 1, 255, 171>>
    /\ result.upper_dash.parsed.bytes = <<0, 171, 86, 1, 255, 171>>

----------------------------------------------------------------------------
(* Claims about one network (SpecNet) *)

\* bit q of an address, bit 0 the highest
AddrBit(addr, q) == (addr[(q \div 8) + 1] \div (2 ^ (7 - (q % 8)))) % 2

\* C2: every datagram sent for a network (base address, prefix length p in
\* 0..32) goes to UDP port 9 at the base address OR-ed with the inverted
\* p-bit mask: the first p bits are those of the base address and the other
\* bits are 1; 192.168.1.0/24 gives 192.168.1.255.
C2_BroadcastDest ==
    (Applied /\ result.ok) =>
        /\ result.dgram.port = 9
        /\ Len(result.dgram.ip) = 4
        /\ \A k \in 1..4 : result.dgram.ip[k] \in 0..255
        /\ \A q \in 0..31 :
                AddrBit(result.dgram.ip, q)
                    = IF q < arg.prefix_len THEN AddrBit(arg.addr, q) ELSE 1
        /\ (arg = [addr |-> <<192, 168, 1, 0>>, prefix_len |-> 24]
                => result.dgram.ip = <<192, 168, 1, 255>>)

C2_Witness ==
    /\ Applied
    /\ result.ok
    /\ arg = [addr |-> <<192, 168, 1, 0>>, prefix_len |-> 24]
    /\ result.dgram.ip = <<192, 168, 1, 255>>
    /\ result.dgram.port = 9

----------------------------------------------------------------------------
(* Claims about a run (Spec) *)

Ended == pc \in {"done", "exited", "panicked"}

BadNetGiven ==
    /\ cli.net.given
    /\ \E k \in 1..Len(cli.net.values) : ~ParseIpv4NetOk(cli.net.values[k])

\* C3: if any network string of the network option fails to parse, the run
\* ends with a non-zero exit code before any MAC address is looked at, and
\* no datagram is sent, wherever the bad string is in the list and whatever
\* the MAC addresses are.
C3_BadNetworkAborts ==
    BadNetGiven =>
        /\ sent = <<>>
        /\ pc \in {"start", "nets", "exited", "panicked"}
        /\ Ended => exit_code \notin {0, Running}
        /\ \A k \in 1..Len(output) : output[k].kind \in {"file_error", "net_error"}

\* a valid MAC address, a good network first and the bad one second
C3_Witness ==
    /\ pc = "exited"
    /\ exit_code = 1
    /\ cli.macs = <<MacLower>>
    /\ cli.net.values = <<Net24, NetBad>>
    /\ output = <<Line("net_error", <<>>, None, 0, 2)>>
    /\ sent = <<>>

FailsValidation(mac_address) ==
    \/ StrLen(mac_address) # 17
    \/ ~Contains(mac_address, ":") /\ ~Contains(mac_address, "-")
    \/ ~ParseMac(ToUppercase(mac_address)).ok

FailureKinds == {"length_error", "separator_error", "send_error"}

ParseErrors == {ErrPartCount, ErrPartLength, ErrNotHex}

\* C4: for every MAC string given as an argument that fails validation, and
\* for every network list, once the run is over a failure message with the
\* string exactly as it was given has been printed, no datagram was sent for
\* it, and the run went on to its normal end.
C4_ArgumentFailureReported ==
    (~cli.file.given /\ pc \in {"loop", "bind", "send", "done", "panicked"}) =>
        \A k \in 1..Len(cli.macs) :
            (FailsValidation(cli.macs[k]) /\ k < i) =>
                /\ \E n \in 1..Len(output) :
                        /\ output[n].kind \in FailureKinds
                        /\ output[n].origin = k
                        /\ output[n].text = cli.macs[k]
                /\ \A n \in 1..Len(sent) : sent[n].origin # k
                /\ pc # "panicked"

\* the lines of the file that were read
LinesRead ==
    {k \in 1..Len(cli.file.lines) :
        \A m \in 1..k : cli.file.lines[m] # IoError}

FailsFileCheck(line) ==
    \/ StrLen(Trim(line)) # 17
    \/ ~Contains(Trim(line), ":") /\ ~Contains(Trim(line), "-")

NothingAbout(k) ==
    /\ \A n \in 1..Len(output) : output[n].origin # k
    /\ \A n \in 1..Len(sent) : sent[n].origin # k

\* C5 as stated: every line of a MAC file that fails MAC validation (any of
\* the five checks) is dropped silently: no message about it is ever printed
\* and no datagram is sent for it.
C5_AllFailuresSilent ==
    cli.file.given =>
        \A k \in LinesRead :
            FailsValidation(Trim(cli.file.lines[k])) => NothingAbout(k)

\* C5 as amended: every line of a MAC file that fails the length check or
\* the separator check is dropped silently (no message, no datagram); a line
\* that fails a later check gets no datagram either, and the only message
\* about it is the error send_magic_packet returns.
C5_LengthSeparatorSilent ==
    cli.file.given =>
        \A k \in LinesRead :
            /\ FailsFileCheck(cli.file.lines[k]) => NothingAbout(k)
            /\ (~NothingAbout(k) /\ FailsValidation(Trim(cli.file.lines[k]))) =>
                    /\ \A n \in 1..Len(sent) : sent[n].origin # k
                    /\ \A n \in 1..Len(output) :
                            output[n].origin = k =>
                                /\ output[n].kind = "send_error"
                                /\ output[n].err \in ParseErrors

\* a file of comments, a blank line, a too short line and a valid one: the
\* run is over, the valid one was sent and nothing was printed
C5_Witness ==
    /\ pc = "done"
    /\ cli.file.given
    /\ cli.file.lines = FileHeader \o <<MacShort, LinePadded>>
    /\ mac_addresses = <<MacLower>>
    /\ Len(sent) = 1 /\ sent[1].origin = 5
    /\ output = <<>>

\* C6: a socket failure while a MAC address is processed (bind, set_broadcast
\* or send_to) never ends the process: the step after it is the next network
\* or the next MAC address.
C6_SocketFailureContinues ==
    [][(pc = "bind" \/ pc = "send") => (pc' = "send" \/ pc' = "loop")]_vars

Valid(k) == ~FailsValidation(mac_addresses[k])

\* the networks of the datagrams sent for the MAC string of origin o
RECURSIVE NetsOf(_, _)
NetsOf(entries, o) ==
    IF entries = <<>> THEN <<>>
    ELSE IF Head(entries).origin = o
    THEN <<Head(entries).net>> \o NetsOf(Tail(entries), o)
    ELSE NetsOf(Tail(entries), o)

VerboseLines == SelectSeq(output, LAMBDA e : e.kind = "verbose")

SocketErrors(o) ==
    {n \in 1..Len(output) :
        /\ output[n].origin = o
        /\ output[n].kind = "send_error"
        /\ output[n].err = ErrIo}

\* C7: for a valid MAC address and networks n1..nk, one datagram is sent per
\* network in list order, all k of them when no socket call fails, and in
\* verbose mode one line is printed per datagram sent; when the send to ni
\* fails, nothing is sent or logged for ni..nk for that MAC address, and the
\* next MAC address starts again at n1.
C7_OnePerNetworkInOrder ==
    (pc \in {"loop", "bind", "send", "done"}) =>
        /\ \A k \in 1..Len(mac_addresses) :
            LET nets == NetsOf(sent, origin[k])
                logged == NetsOf(VerboseLines, origin[k])
                errors == SocketErrors(origin[k])
            IN  /\ nets = [n \in 1..Len(nets) |-> n]
                /\ Len(nets) <= Len(networks)
                /\ logged = IF cli.verbose THEN nets ELSE <<>>
                /\ (k < i /\ errors = {} /\ Valid(k)) => Len(nets) = Len(networks)
                /\ \A e \in errors :
                        /\ Len(nets) = output[e].net - 1
                        /\ k < i
                /\ (k = i /\ pc = "send") => j = Len(nets) + 1
                /\ k > i => nets = <<>>
        /\ \A n \in 1..(Len(sent) - 1) : sent[n].origin <= sent[n + 1].origin
        /\ \A n \in 1..Len(sent) :
                /\ sent[n].net \in 1..Len(networks)
                /\ sent[n].ip = Broadcast(networks[sent[n].net])
                /\ \E k \in 1..Len(mac_addresses) : origin[k] = sent[n].origin

\* verbose, two valid MAC addresses and two networks: the send to the second
\* network failed for the first address, the second address got both
C7_Witness ==
    /\ pc = "done"
    /\ cli.verbose
    /\ Len(mac_addresses) = 2 /\ Valid(1) /\ Valid(2)
    /\ Len(networks) = 2
    /\ NetsOf(sent, origin[1]) = <<1>>
    /\ NetsOf(sent, origin[2]) = <<1, 2>>
    /\ \E e \in SocketErrors(origin[1]) : output[e].net = 2
    /\ Len(VerboseLines) = 3

====
